---- MODULE Spec2Model ----
(***************************************************************************)
(* Model of tabox's src/util.rs: the resource-limit setup executed in the  *)
(* child before exec (setup_resource_limits / set_resource_limit), the     *)
(* completion collector (wait, built on wait4 with options = 0) and the    *)
(* signal namer (strsignal).  The kernel and the C library are modelled as *)
(* far as the three functions observe them.                                *)
(***************************************************************************)
EXTENDS Integers, Sequences, FiniteSets, TLC

\* ------------------------------------------------------------------ bounds
\* Finite limit values 0..MaxLimit are used besides RLIM_INFINITY.
MaxLimit == 1

\* ------------------------------------------------------------- data types
\* Option<T>: None is the empty sequence, Some(x) the one-element sequence.
None == <<>>
Some(x) == <<x>>

\* A u64 is kept at its full width as four 16-bit limbs, most significant
\* first (TLC's integers are 32 bits wide).
Limb == 65536

U64Of(n) == <<0, 0, 0, n>>

U64Max == <<Limb - 1, Limb - 1, Limb - 1, Limb - 1>>

RECURSIVE LtFrom(_, _, _)
LtFrom(a, b, i) ==
  IF i > 4 THEN FALSE
  ELSE IF a[i] # b[i] THEN a[i] < b[i]
  ELSE LtFrom(a, b, i + 1)

\* a > b on u64
Gt(a, b) == LtFrom(b, a, 1)

\* a * 1024 in u64, wrapping (the carry out of the top limb is dropped)
Mul1024(a) ==
  LET p4 == a[4] * 1024
      p3 == a[3] * 1024 + p4 \div Limb
      p2 == a[2] * 1024 + p3 \div Limb
      p1 == a[1] * 1024 + p2 \div Limb
  IN <<p1 % Limb, p2 % Limb, p3 % Limb, p4 % Limb>>

\* a / 1024 in u64
Div1024(a) ==
  LET c1 == a[1]
      c2 == (c1 % 1024) * Limb + a[2]
      c3 == (c2 % 1024) * Limb + a[3]
      c4 == (c3 % 1024) * Limb + a[4]
  IN <<c1 \div 1024, c2 \div 1024, c3 \div 1024, c4 \div 1024>>

\* rlim_t is u64 and RLIM_INFINITY is its largest value.
RLIM_INFINITY == U64Max

Resources == {"RLIMIT_AS", "RLIMIT_CPU", "RLIMIT_CORE"}

LimitValues == {U64Of(n) : n \in 0..MaxLimit} \cup {RLIM_INFINITY}

RLimits == {rl \in [rlim_cur : LimitValues, rlim_max : LimitValues] :
              ~Gt(rl.rlim_cur, rl.rlim_max)}

OptionU64 == {None} \cup {Some(v) : v \in LimitValues}

SandboxConfiguration == [memory_limit : OptionU64, time_limit : OptionU64]

VARIABLES
  \* --- limit enforcer
  privileged,   \* the calling process may raise hard limits
  inherited,    \* resource limits the process started with
  limits,       \* current resource limits of the calling process
  config,       \* configuration handed to setup_resource_limits
  calls,        \* setrlimit calls issued by setup_resource_limits, in order
  setupResult,  \* "NotCalled", then "Ok" or "Err"
  attempt       \* a setrlimit the process issues after the setup, or None

limitVars == <<privileged, inherited, limits, config, calls, setupResult, attempt>>

VARIABLES
  \* --- completion collector
  maxrssUnit,   \* unit of ru_maxrss on the platform: "kilobytes" or "bytes"
  traced,       \* the child is ptrace-traced by the caller
  child,        \* the child process as the kernel sees it
  pc,           \* "idle", "blocked" (inside wait4) or "returned"
  pidArg,       \* argument of the current wait(pid)
  nWait4,       \* wait4 calls issued by the current wait(pid)
  w4,           \* what wait4 returned: ret, status, rusage
  result        \* what wait(pid) returned

waitVars == <<maxrssUnit, traced, child, pc, pidArg, nWait4, w4, result>>

VARIABLES
  \* --- signal namer
  unix,         \* the build has cfg(unix)
  sigPc,        \* "idle" or "returned"
  sigArg,       \* argument of the last strsignal call
  sigResult     \* its Option<String>

sigVars == <<unix, sigPc, sigArg, sigResult>>

vars == <<limitVars, waitVars, sigVars>>

\* the signal namer is not exercised
SignalIdle ==
  /\ unix = TRUE
  /\ sigPc = "idle"
  /\ sigArg = 0
  /\ sigResult = None

\* the limit enforcer is not exercised
LimitsIdle ==
  /\ privileged = FALSE
  /\ inherited = [r \in Resources |-> [rlim_cur |-> RLIM_INFINITY,
                                        rlim_max |-> RLIM_INFINITY]]
  /\ limits = inherited
  /\ config = [memory_limit |-> None, time_limit |-> None]
  /\ calls = <<>>
  /\ setupResult = "NotCalled"
  /\ attempt = None

\* --------------------------------------------------- completion collector

\* the pid of the one child of the caller, and a pid that is no child of it
ChildPid == 4321
OtherPid == 4322

\* arguments of wait: the child, a process that is no child, and the two
\* "any child" forms of wait4 (0: same process group, -1: any)
PidArgs == {ChildPid, OtherPid, 0, -1}

ExitCodes == 0..255

\* signals that terminate the child, and those among them that may dump core
KillSignals == {1, 9, 11, 15, 24, 64}
CoreSignals == {11, 24}
StopSignals == {19, 20}

\* what the child has consumed: peak resident set in bytes, CPU times
RusageSamples ==
  { [peakRss |-> U64Of(4096),
     utime |-> [tv_sec |-> 0, tv_usec |-> 0],
     stime |-> [tv_sec |-> 0, tv_usec |-> 1000]],
    [peakRss |-> <<0, 0, 16, 0>>,
     utime |-> [tv_sec |-> 1, tv_usec |-> 500000],
     stime |-> [tv_sec |-> 0, tv_usec |-> 250000]],
    [peakRss |-> <<0, 256, 0, 0>>,
     utime |-> [tv_sec |-> 2, tv_usec |-> 999999],
     stime |-> [tv_sec |-> 1, tv_usec |-> 0]] }

\* std::mem::zeroed() rusage and the initial status
ZeroedRusage ==
  [ru_maxrss |-> U64Of(0),
   ru_utime |-> [tv_sec |-> 0, tv_usec |-> 0],
   ru_stime |-> [tv_sec |-> 0, tv_usec |-> 0]]

\* the wait status word the kernel builds for the child's last state change
EncodeStatus(c) ==
  IF c.how = "exited" THEN (c.n % 256) * 256
  ELSE IF c.how = "killed" THEN c.n + (IF c.core THEN 128 ELSE 0)
  ELSE IF c.how = "stopped" THEN c.n * 256 + 127
  ELSE 65535

\* the rusage the kernel fills in for the child
KernelRusage(c, unit) ==
  [ru_maxrss |-> IF unit = "kilobytes" THEN Div1024(c.usage.peakRss)
                 ELSE c.usage.peakRss,
   ru_utime |-> c.usage.utime,
   ru_stime |-> c.usage.stime]

\* libc's wait-status macros
WIFEXITED(status) == (status % 128) = 0
WEXITSTATUS(status) == (status \div 256) % 256
AsI8(x) == IF x % 256 >= 128 THEN (x % 256) - 256 ELSE x % 256
WIFSIGNALED(status) == AsI8((status % 128) + 1) >= 2
WTERMSIG(status) == status % 128

ExitCode(c) == [tag |-> "ExitCode", value |-> c]
Signal(s) == [tag |-> "Signal", value |-> s]

Err(msg) == [tag |-> "Err", msg |-> msg]
Ok(status, usage) == [tag |-> "Ok", status |-> status, usage |-> usage]
NoResult == [tag |-> "None"]

\* `x as u64` of a c_long: the bits are kept
AsU64(x) == [i \in 1..4 |-> x[i] % Limb]

\* tv_usec / 1_000_000.0 + tv_sec, kept exactly as a count of microseconds
Seconds(tv) == tv.tv_sec * 1000000 + tv.tv_usec

\* the ResourceUsage record built from the rusage of wait4
MakeResourceUsage(rusage) ==
  [memory_usage    |-> Mul1024(AsU64(rusage.ru_maxrss)),
   user_cpu_time   |-> Seconds(rusage.ru_utime),
   system_cpu_time |-> Seconds(rusage.ru_stime),
   wall_time_usage |-> 0]

\* Variants of wait with one plausible slip each.
\* (a) the two status tests are taken in the other order and WTERMSIG keeps
\*     the core flag
WaitSignalFirst(pid, r) ==
  IF r.ret # pid THEN Err("Error waiting for child completion")
  ELSE IF WIFSIGNALED(r.status) \/ r.status % 256 = 127
    THEN Ok(Signal(r.status % 256), MakeResourceUsage(r.rusage))
  ELSE IF WIFEXITED(r.status)
    THEN Ok(ExitCode(WEXITSTATUS(r.status)), MakeResourceUsage(r.rusage))
  ELSE Err("Child terminated with unknown status")

\* (b) only a negative return of wait4 is taken as a failure
WaitNegativeOnly(pid, r) ==
  IF r.ret < 0 THEN Err("Error waiting for child completion")
  ELSE IF WIFEXITED(r.status)
    THEN Ok(ExitCode(WEXITSTATUS(r.status)), MakeResourceUsage(r.rusage))
  ELSE IF WIFSIGNALED(r.status)
    THEN Ok(Signal(WTERMSIG(r.status)), MakeResourceUsage(r.rusage))
  ELSE Err("Child terminated with unknown status")

\* (c) a status that is neither exited nor signaled yields a placeholder
WaitPlaceholder(pid, r) ==
  IF r.ret # pid THEN Err("Error waiting for child completion")
  ELSE IF WIFEXITED(r.status)
    THEN Ok(ExitCode(WEXITSTATUS(r.status)), MakeResourceUsage(r.rusage))
  ELSE IF WIFSIGNALED(r.status)
    THEN Ok(Signal(WTERMSIG(r.status)), MakeResourceUsage(r.rusage))
  ELSE Ok(ExitCode(0), MakeResourceUsage(r.rusage))

\* wait(pid), from the return of wait4 on: r = [ret, status, rusage]
Wait(pid, r) ==
  IF r.ret # pid THEN Err("Error waiting for child completion")
  ELSE IF WIFEXITED(r.status)
    THEN Ok(ExitCode(WEXITSTATUS(r.status)), MakeResourceUsage(r.rusage))
  ELSE IF WIFSIGNALED(r.status)
    THEN Ok(Signal(WTERMSIG(r.status)), MakeResourceUsage(r.rusage))
  ELSE Err("Child terminated with unknown status")

\* wait4(pid, ..) selects the child: its own pid, or any child for 0 and -1
Selects(pid) == pid = ChildPid \/ pid = 0 \/ pid = -1

NotStarted == [ret |-> 0, status |-> 0, rusage |-> ZeroedRusage]

WaitIdle ==
  /\ maxrssUnit = "kilobytes"
  /\ traced = FALSE
  /\ child = [state |-> "reaped", how |-> "exited", n |-> 0, core |-> FALSE,
              stopPending |-> FALSE, usage |-> CHOOSE u \in RusageSamples :
                                                  u.peakRss = U64Of(4096)]
  /\ pc = "idle"
  /\ pidArg = ChildPid
  /\ nWait4 = 0
  /\ w4 = NotStarted
  /\ result = NoResult

InitWait ==
  /\ LimitsIdle
  /\ SignalIdle
  /\ maxrssUnit \in {"kilobytes", "bytes"}
  /\ traced \in BOOLEAN
  /\ \E u \in RusageSamples :
       child = [state |-> "running", how |-> "running", n |-> 0,
                core |-> FALSE, stopPending |-> FALSE, usage |-> u]
  /\ pc = "idle"
  /\ pidArg = ChildPid
  /\ nWait4 = 0
  /\ w4 = NotStarted
  /\ result = NoResult

\* --- the child and the outside world
ChildExits ==
  /\ child.state = "running"
  /\ \E c \in ExitCodes :
       child' = [child EXCEPT !.state = "zombie", !.how = "exited", !.n = c,
                              !.core = FALSE, !.stopPending = FALSE]
  /\ UNCHANGED <<limitVars, sigVars, maxrssUnit, traced, pc, pidArg, nWait4, w4,
                 result>>

ChildKilled ==
  /\ child.state \in {"running", "stopped"}
  /\ \E s \in KillSignals, dump \in BOOLEAN :
       /\ dump => s \in CoreSignals
       /\ child.state = "stopped" => s = 9
       /\ child' = [child EXCEPT !.state = "zombie", !.how = "killed", !.n = s,
                                 !.core = dump, !.stopPending = FALSE]
  /\ UNCHANGED <<limitVars, sigVars, maxrssUnit, traced, pc, pidArg, nWait4, w4,
                 result>>

ChildStopped ==
  /\ child.state = "running"
  /\ \E s \in StopSignals :
       child' = [child EXCEPT !.state = "stopped", !.how = "stopped", !.n = s,
                              !.stopPending = TRUE]
  /\ UNCHANGED <<limitVars, sigVars, maxrssUnit, traced, pc, pidArg, nWait4, w4,
                 result>>

ChildContinued ==
  /\ child.state = "stopped"
  /\ child' = [child EXCEPT !.state = "running", !.how = "continued", !.n = 0,
                            !.stopPending = FALSE]
  /\ UNCHANGED <<limitVars, sigVars, maxrssUnit, traced, pc, pidArg, nWait4, w4,
                 result>>

\* --- wait(pid)
\* entry of wait: status = 0, rusage zeroed, wait4 is entered with options 0
WaitCall ==
  /\ pc \in {"idle", "returned"}
  /\ \E pid \in PidArgs : pidArg' = pid
  /\ pc' = "blocked"
  /\ nWait4' = 1
  /\ w4' = NotStarted
  /\ result' = NoResult
  /\ UNCHANGED <<limitVars, sigVars, maxrssUnit, traced, child>>

\* wait4 comes back with r; the rest of wait runs to its return
Return(r) ==
  /\ w4' = r
  /\ result' = Wait(pidArg, r)
  /\ pc' = "returned"
  /\ UNCHANGED <<limitVars, sigVars, maxrssUnit, traced, pidArg, nWait4>>

\* the selected child has terminated: it is reaped
Wait4Reaps ==
  /\ pc = "blocked" /\ Selects(pidArg) /\ child.state = "zombie"
  /\ child' = [child EXCEPT !.state = "reaped"]
  /\ Return([ret |-> ChildPid, status |-> EncodeStatus(child),
             rusage |-> KernelRusage(child, maxrssUnit)])

\* a traced child has stopped: the stop is reported even with options = 0
Wait4ReportsStop ==
  /\ pc = "blocked" /\ Selects(pidArg)
  /\ traced /\ child.state = "stopped" /\ child.stopPending
  /\ child' = [child EXCEPT !.stopPending = FALSE]
  /\ Return([ret |-> ChildPid, status |-> EncodeStatus(child),
             rusage |-> KernelRusage(child, maxrssUnit)])

\* ECHILD: no child is selected by pid; status and rusage are not written
Wait4NoChild ==
  /\ pc = "blocked"
  /\ ~Selects(pidArg) \/ child.state = "reaped"
  /\ UNCHANGED child
  /\ Return([ret |-> -1, status |-> 0, rusage |-> ZeroedRusage])

\* EINTR: a signal handler of the caller ran while wait4 was blocked
Wait4Interrupted ==
  /\ pc = "blocked" /\ Selects(pidArg)
  /\ child.state \in {"running", "stopped"}
  /\ UNCHANGED child
  /\ Return([ret |-> -1, status |-> 0, rusage |-> ZeroedRusage])

NextWait ==
  \/ ChildExits \/ ChildKilled \/ ChildStopped \/ ChildContinued
  \/ WaitCall
  \/ Wait4Reaps \/ Wait4ReportsStop \/ Wait4NoChild \/ Wait4Interrupted

SpecWait == InitWait /\ [][NextWait]_vars

\* the kernel completes a wait4 that can complete
FairSpecWait == SpecWait /\ WF_vars(Wait4Reaps) /\ WF_vars(Wait4NoChild)

\* ------------------------------------------------------------ signal namer

\* descriptions of the C library for the signals 1..31
SigDescr ==
  << "Hangup", "Interrupt", "Quit", "Illegal instruction",
     "Trace/breakpoint trap", "Aborted", "Bus error",
     "Floating point exception", "Killed", "User defined signal 1",
     "Segmentation fault", "User defined signal 2", "Broken pipe",
     "Alarm clock", "Terminated", "Stack fault", "Child exited", "Continued",
     "Stopped (signal)", "Stopped", "Stopped (tty input)",
     "Stopped (tty output)", "Urgent I/O condition",
     "CPU time limit exceeded", "File size limit exceeded",
     "Virtual timer expired", "Profiling timer expired", "Window changed",
     "I/O possible", "Power failure", "Bad system call" >>

\* the signal numbers that name a signal: the standard and the real-time ones
DefinedSignals == (1..31) \cup (34..64)

\* strsignal(3): a description for every int; for a number that names no
\* signal it is the text "Unknown signal <n>", never an empty string
CStrsignal(signal) ==
  IF signal \in 1..31 THEN SigDescr[signal]
  ELSE IF signal \in 34..64 THEN "Real-time signal " \o ToString(signal - 34)
  ELSE "Unknown signal " \o ToString(signal)

\* strsignal of util.rs
Strsignal(signal, isUnix) ==
  IF isUnix
    THEN LET cstr == CStrsignal(signal)
         IN IF cstr = "" THEN None ELSE Some(cstr)
    ELSE None

\* the i32 arguments tried: around the defined range and the two extremes
SignalInputs == (-3..70) \cup {-2147483647 - 1, 2147483647, 128, 255}

InitSignal ==
  /\ LimitsIdle
  /\ WaitIdle
  /\ unix \in BOOLEAN
  /\ sigPc = "idle"
  /\ sigArg = 0
  /\ sigResult = None

StrsignalCall ==
  /\ \E signal \in SignalInputs :
       /\ sigArg' = signal
       /\ sigResult' = Strsignal(signal, unix)
  /\ sigPc' = "returned"
  /\ UNCHANGED <<limitVars, waitVars, unix>>

NextSignal == StrsignalCall

SpecSignal == InitSignal /\ [][NextSignal]_vars

\* --------------------------------------------------------- limit enforcer

\* `limit as libc::rlim_t`: u64 to u64, all four limbs are kept
AsRlimT(limit) == [i \in 1..4 |-> limit[i] % Limb]

\* setrlimit(2): EINVAL when soft > hard, EPERM when an unprivileged process
\* raises the hard limit; otherwise the limit is replaced.
SetrlimitRet(lims, priv, resource, r_limit) ==
  IF Gt(r_limit.rlim_cur, r_limit.rlim_max) THEN -1
  ELSE IF ~priv /\ Gt(r_limit.rlim_max, lims[resource].rlim_max) THEN -1
  ELSE 0

Setrlimit(lims, priv, resource, r_limit) ==
  IF SetrlimitRet(lims, priv, resource, r_limit) < 0
    THEN lims
    ELSE [lims EXCEPT ![resource] = r_limit]

\* Variant of set_resource_limit that moves only the soft limit.
SetResourceLimitSoftOnly(st, priv, resource, limit) ==
  LET r_limit == [rlim_cur |-> AsRlimT(limit),
                  rlim_max |-> st.limits[resource].rlim_max]
      ret     == SetrlimitRet(st.limits, priv, resource, r_limit)
  IN [ok     |-> ~(ret < 0),
      limits |-> Setrlimit(st.limits, priv, resource, r_limit),
      calls  |-> Append(st.calls, [resource |-> resource, limit |-> limit,
                                   ok |-> ~(ret < 0)])]

\* set_resource_limit applied to the state st = [ok, limits, calls]
SetResourceLimit(st, priv, resource, limit) ==
  LET r_limit == [rlim_cur |-> AsRlimT(limit), rlim_max |-> AsRlimT(limit)]
      ret     == SetrlimitRet(st.limits, priv, resource, r_limit)
  IN [ok     |-> ~(ret < 0),
      limits |-> Setrlimit(st.limits, priv, resource, r_limit),
      calls  |-> Append(st.calls, [resource |-> resource, limit |-> limit,
                                   ok |-> ~(ret < 0)])]

\* Variants of setup_resource_limits, each with one plausible slip.
\* (a) the core-dump limit is not set
SetupNoCore(cfg, lims, priv) ==
  LET s0 == [ok |-> TRUE, limits |-> lims, calls |-> <<>>]
      s1 == IF cfg.memory_limit # None
              THEN SetResourceLimit(s0, priv, "RLIMIT_AS", cfg.memory_limit[1])
              ELSE s0
      s2 == IF ~s1.ok THEN s1
            ELSE IF cfg.time_limit # None
              THEN SetResourceLimit(s1, priv, "RLIMIT_CPU", cfg.time_limit[1])
              ELSE s1
  IN s2

\* (b) the result of the memory call is dropped instead of propagated
SetupIgnoreMemoryError(cfg, lims, priv) ==
  LET s0 == [ok |-> TRUE, limits |-> lims, calls |-> <<>>]
      s1 == IF cfg.memory_limit # None
              THEN [SetResourceLimit(s0, priv, "RLIMIT_AS", cfg.memory_limit[1])
                      EXCEPT !.ok = TRUE]
              ELSE s0
      s2 == IF cfg.time_limit # None
              THEN SetResourceLimit(s1, priv, "RLIMIT_CPU", cfg.time_limit[1])
              ELSE s1
      s3 == IF ~s2.ok THEN s2
            ELSE SetResourceLimit(s2, priv, "RLIMIT_CORE", U64Of(0))
  IN s3

\* (c) an absent memory limit is applied as 0 (unwrap_or_default)
SetupDefaultMemory(cfg, lims, priv) ==
  LET s0 == [ok |-> TRUE, limits |-> lims, calls |-> <<>>]
      s1 == SetResourceLimit(s0, priv, "RLIMIT_AS",
              IF cfg.memory_limit # None THEN cfg.memory_limit[1] ELSE U64Of(0))
      s2 == IF ~s1.ok THEN s1
            ELSE IF cfg.time_limit # None
              THEN SetResourceLimit(s1, priv, "RLIMIT_CPU", cfg.time_limit[1])
              ELSE s1
      s3 == IF ~s2.ok THEN s2
            ELSE SetResourceLimit(s2, priv, "RLIMIT_CORE", U64Of(0))
  IN s3

\* (d) the CPU-time limit is applied before the memory limit
SetupCpuFirst(cfg, lims, priv) ==
  LET s0 == [ok |-> TRUE, limits |-> lims, calls |-> <<>>]
      s1 == IF cfg.time_limit # None
              THEN SetResourceLimit(s0, priv, "RLIMIT_CPU", cfg.time_limit[1])
              ELSE s0
      s2 == IF ~s1.ok THEN s1
            ELSE IF cfg.memory_limit # None
              THEN SetResourceLimit(s1, priv, "RLIMIT_AS", cfg.memory_limit[1])
              ELSE s1
      s3 == IF ~s2.ok THEN s2
            ELSE SetResourceLimit(s2, priv, "RLIMIT_CORE", U64Of(0))
  IN s3

\* setup_resource_limits: each `?` returns at the first failure
SetupResourceLimits(cfg, lims, priv) ==
  LET s0 == [ok |-> TRUE, limits |-> lims, calls |-> <<>>]
      s1 == IF cfg.memory_limit # None
              THEN SetResourceLimit(s0, priv, "RLIMIT_AS", cfg.memory_limit[1])
              ELSE s0
      s2 == IF ~s1.ok THEN s1
            ELSE IF cfg.time_limit # None
              THEN SetResourceLimit(s1, priv, "RLIMIT_CPU", cfg.time_limit[1])
              ELSE s1
      s3 == IF ~s2.ok THEN s2
            ELSE SetResourceLimit(s2, priv, "RLIMIT_CORE", U64Of(0))
  IN s3

InitLimits ==
  /\ WaitIdle
  /\ SignalIdle
  /\ privileged \in BOOLEAN
  /\ inherited \in [Resources -> RLimits]
  /\ limits = inherited
  /\ config = [memory_limit |-> None, time_limit |-> None]
  /\ calls = <<>>
  /\ setupResult = "NotCalled"
  /\ attempt = None

\* The child calls setup_resource_limits(config) once, before exec.
Setup ==
  /\ setupResult = "NotCalled"
  /\ \E cfg \in SandboxConfiguration :
       LET r == SetupResourceLimits(cfg, limits, privileged)
       IN /\ config' = cfg
          /\ limits' = r.limits
          /\ calls' = r.calls
          /\ setupResult' = IF r.ok THEN "Ok" ELSE "Err"
  /\ UNCHANGED <<privileged, inherited, attempt, waitVars, sigVars>>

\* After the setup the process itself calls setrlimit once more.
LaterSetrlimit ==
  /\ setupResult # "NotCalled"
  /\ attempt = None
  /\ \E resource \in Resources, r_limit \in RLimits :
       /\ attempt' = Some([resource |-> resource, r_limit |-> r_limit,
                           ret |-> SetrlimitRet(limits, privileged, resource, r_limit)])
       /\ limits' = Setrlimit(limits, privileged, resource, r_limit)
  /\ UNCHANGED <<privileged, inherited, config, calls, setupResult, waitVars, sigVars>>

NextLimits == Setup \/ LaterSetrlimit

SpecLimits == InitLimits /\ [][NextLimits]_vars

\* ------------------------------------------------- limit enforcer: claims

\* setup_resource_limits has returned and nothing has touched the limits since
SetupReturned == setupResult # "NotCalled" /\ attempt = None

Both(v) == [rlim_cur |-> v, rlim_max |-> v]

\* the dimensions in the order of the source text
Order == <<"RLIMIT_AS", "RLIMIT_CPU", "RLIMIT_CORE">>

Idx(resource) == CHOOSE i \in 1..3 : Order[i] = resource

\* the dimensions the configuration asks for, with the requested values
Requested(cfg) ==
  (IF cfg.memory_limit # None
     THEN <<[resource |-> "RLIMIT_AS", limit |-> cfg.memory_limit[1]]>> ELSE <<>>)
  \o (IF cfg.time_limit # None
     THEN <<[resource |-> "RLIMIT_CPU", limit |-> cfg.time_limit[1]]>> ELSE <<>>)
  \o <<[resource |-> "RLIMIT_CORE", limit |-> U64Of(0)]>>

SomeCallFailed == \E i \in 1..Len(calls) : ~calls[i].ok

EarlierCallFailed ==
  \E i \in 1..Len(calls) : ~calls[i].ok /\ calls[i].resource # "RLIMIT_CORE"

\* C2 as stated: whatever the configuration, once setup_resource_limits has
\* returned, the core-dump limit of the process is 0 (soft and hard).
C2_CoreAlwaysZero ==
  SetupReturned => limits["RLIMIT_CORE"] = Both(U64Of(0))

\* C2 amended: whatever the configuration, the core-dump limit is 0 (soft and
\* hard) after every call in which no earlier limit-setting call (memory, CPU
\* time) failed, in particular after every call that returns Ok; when an
\* earlier call fails, the core-dump limit keeps its inherited value.
C2_CoreZeroUnlessEarlierFailure ==
  SetupReturned =>
    /\ ~EarlierCallFailed => limits["RLIMIT_CORE"] = Both(U64Of(0))
    /\ setupResult = "Ok" => limits["RLIMIT_CORE"] = Both(U64Of(0))
    /\ EarlierCallFailed => limits["RLIMIT_CORE"] = inherited["RLIMIT_CORE"]

C2_Witness ==
  /\ SetupReturned
  /\ setupResult = "Ok"
  /\ config.memory_limit # None /\ config.time_limit # None
  /\ inherited["RLIMIT_CORE"] = Both(RLIM_INFINITY)
  /\ limits["RLIMIT_CORE"] = Both(U64Of(0))

\* C3: setup_resource_limits returns Error exactly when one of the setrlimit
\* calls it issued reported failure; on Error every limit applied earlier in
\* the call keeps its new value and every dimension after the failing one
\* still has its inherited value.
C3_ErrorIffFailureNoRollback ==
  SetupReturned =>
    /\ (setupResult = "Err") <=> SomeCallFailed
    /\ setupResult = "Err" =>
         \A i \in 1..Len(calls) :
           /\ calls[i].ok =>
                limits[calls[i].resource] = Both(calls[i].limit)
           /\ ~calls[i].ok =>
                \A r \in Resources :
                  Idx(r) >= Idx(calls[i].resource) => limits[r] = inherited[r]

C3_Witness ==
  /\ SetupReturned
  /\ setupResult = "Err"
  /\ Len(calls) = 2 /\ calls[1].ok /\ ~calls[2].ok
  /\ limits["RLIMIT_AS"] # inherited["RLIMIT_AS"]
  /\ limits["RLIMIT_AS"] = Both(config.memory_limit[1])
  /\ limits["RLIMIT_CORE"] = inherited["RLIMIT_CORE"]
  /\ limits["RLIMIT_CORE"] # Both(U64Of(0))

\* after an Ok, soft = hard = requested value on every dimension that was set
SetDimensionsPinned ==
  SetupReturned /\ setupResult = "Ok" =>
    \A i \in 1..Len(Requested(config)) :
      limits[Requested(config)[i].resource] = Both(Requested(config)[i].limit)

\* the later setrlimit tries to lift a dimension the setup has set above the
\* value it was set to
RaisesAbove(a) ==
  \E i \in 1..Len(Requested(config)) :
    /\ Requested(config)[i].resource = a.resource
    /\ \/ Gt(a.r_limit.rlim_cur, Requested(config)[i].limit)
       \/ Gt(a.r_limit.rlim_max, Requested(config)[i].limit)

\* C4 as stated: after Ok, soft = hard = requested value on each dimension
\* set, and every later attempt of the process to raise such a limit above
\* that value is rejected.
C4_PinnedAndNeverRaised ==
  /\ SetDimensionsPinned
  /\ (setupResult = "Ok" /\ attempt # None /\ RaisesAbove(attempt[1])) =>
       attempt[1].ret < 0

\* C4 amended: after Ok, soft = hard = requested value on each dimension set,
\* and every later attempt to raise such a limit above that value is rejected
\* (and leaves the limits as they were) unless the process is privileged to
\* raise hard limits.
C4_PinnedAndNotRaisedUnprivileged ==
  /\ SetDimensionsPinned
  /\ (setupResult = "Ok" /\ attempt # None /\ RaisesAbove(attempt[1])
        /\ ~privileged) =>
       /\ attempt[1].ret < 0
       /\ \A i \in 1..Len(Requested(config)) :
            limits[Requested(config)[i].resource]
              = Both(Requested(config)[i].limit)

C4_Witness ==
  /\ setupResult = "Ok" /\ ~privileged
  /\ config.memory_limit = Some(U64Of(1))
  /\ inherited["RLIMIT_AS"] = Both(RLIM_INFINITY)
  /\ attempt # None
  /\ attempt[1].resource = "RLIMIT_AS"
  /\ attempt[1].r_limit = Both(RLIM_INFINITY)
  /\ attempt[1].ret < 0
  /\ limits["RLIMIT_AS"] = Both(U64Of(1))

\* C5: an absent memory_limit leaves the address-space limit as inherited,
\* an absent time_limit leaves the CPU-time limit as inherited, and with both
\* absent the call returns Ok and changes the core-dump limit only.
C5_AbsentLeftUntouched ==
  SetupReturned =>
    /\ config.memory_limit = None =>
         limits["RLIMIT_AS"] = inherited["RLIMIT_AS"]
    /\ config.time_limit = None =>
         limits["RLIMIT_CPU"] = inherited["RLIMIT_CPU"]
    /\ (config.memory_limit = None /\ config.time_limit = None) =>
         /\ setupResult = "Ok"
         /\ limits = [inherited EXCEPT !["RLIMIT_CORE"] = Both(U64Of(0))]

C5_Witness ==
  /\ SetupReturned
  /\ config.memory_limit = None /\ config.time_limit = None
  /\ setupResult = "Ok"
  /\ ~privileged
  /\ inherited["RLIMIT_AS"] = Both(U64Of(0))
  /\ limits["RLIMIT_AS"] = Both(U64Of(0))
  /\ inherited["RLIMIT_CORE"] # Both(U64Of(0))
  /\ limits["RLIMIT_CORE"] = Both(U64Of(0))

\* C10: the setrlimit calls of one setup_resource_limits are a prefix of
\* [address space if memory_limit present, CPU time if time_limit present,
\* core-dump size] in that order, with the requested values; every call but
\* the last succeeded, and the call returns Error exactly when the last call
\* issued failed (the sequence is complete otherwise).
C10_CallsArePrefixInOrder ==
  setupResult # "NotCalled" =>
    /\ Len(calls) >= 1 /\ Len(calls) <= Len(Requested(config))
    /\ \A i \in 1..Len(calls) :
         /\ calls[i].resource = Requested(config)[i].resource
         /\ calls[i].limit = Requested(config)[i].limit
         /\ i < Len(calls) => calls[i].ok
    /\ (setupResult = "Err") <=> ~calls[Len(calls)].ok
    /\ setupResult = "Ok" => Len(calls) = Len(Requested(config))

C10_Witness ==
  /\ setupResult = "Err"
  /\ config.memory_limit # None /\ config.time_limit # None
  /\ Len(calls) = 2
  /\ calls[1].resource = "RLIMIT_AS" /\ calls[1].ok
  /\ calls[2].resource = "RLIMIT_CPU" /\ ~calls[2].ok

\* ------------------------------------------- completion collector: claims

\* wait has returned and wait4 had returned the requested pid
ReturnedForPid == pc = "returned" /\ w4.ret = pidArg

\* C1: when wait4 returned the requested pid, wait classifies the status
\* word in this order: a normal-exit word (c * 256, c in 0..255) gives
\* ExitCode(c); otherwise a signal word (s or s + 128 with the core flag,
\* s in 1..126) gives Signal(s); any other word (stopped, continued,
\* unrecognized) gives Error.  An exit or a kill of the child that wait4
\* reports is returned with the child's own exit code or signal.
C1_ClassifiesStatusInOrder ==
  ReturnedForPid =>
    /\ \A c \in 0..255 :
         w4.status = c * 256 =>
           result.tag = "Ok" /\ result.status = ExitCode(c)
    /\ \A s \in 1..126 :
         w4.status \in {s, s + 128} =>
           result.tag = "Ok" /\ result.status = Signal(s)
    /\ (w4.status \notin {c * 256 : c \in 0..255}
          /\ w4.status \notin {s : s \in 1..126} \cup {s + 128 : s \in 1..126}) =>
         result = Err("Child terminated with unknown status")
    /\ (w4.ret = ChildPid /\ child.state = "reaped") =>
         /\ child.how = "exited" => result = Ok(ExitCode(child.n), result.usage)
         /\ child.how = "killed" => result = Ok(Signal(child.n), result.usage)

C1_Witness ==
  /\ ReturnedForPid
  /\ pidArg = ChildPid
  /\ child.state = "stopped"
  /\ w4.status = 19 * 256 + 127
  /\ result = Err("Child terminated with unknown status")

\* C6: when wait4 returns anything but the requested pid (the failure value
\* or another process id), wait returns Error and neither an ExitStatus nor
\* a ResourceUsage; every invocation of wait issues exactly one wait4.
C6_ErrorWithoutRetry ==
  /\ pc = "idle" => nWait4 = 0
  /\ pc # "idle" => nWait4 = 1
  /\ (pc = "returned" /\ w4.ret # pidArg) =>
       result = Err("Error waiting for child completion")

C6_Witness ==
  /\ pc = "returned"
  /\ pidArg = 0
  /\ w4.ret = ChildPid
  /\ child.state = "reaped"
  /\ result = Err("Error waiting for child completion")
  /\ nWait4 = 1

ChildAlive == child.state \in {"running", "stopped"}

\* C7 as stated: wait(pid) on a child of the caller does not return while
\* the child is running, stopped or continued.
C7_NoReturnWhileAlive ==
  [][(pc = "blocked" /\ pidArg = ChildPid /\ ChildAlive) => pc' = "blocked"]_vars

\* C7 amended: wait(pid) on a child of the caller returns no successful
\* result while the child is running, stopped or continued; before the
\* child has terminated it can only return Error (the wait call was
\* interrupted, or it reported the stop of a traced child).  Once the child
\* has terminated a blocked wait eventually returns, with ExitCode(c) when
\* the child exited with c and Signal(s) when it was killed by signal s.
C7_OkOnlyAfterTermination ==
  /\ [][(pc = "blocked" /\ pidArg = ChildPid /\ ChildAlive /\ pc' = "returned")
          => result'.tag = "Err"]_vars
  /\ [][(pc = "blocked" /\ pidArg = ChildPid /\ child.state = "zombie"
           /\ pc' = "returned")
          => /\ result'.tag = "Ok"
             /\ child.how = "killed" => result'.status = Signal(child.n)
             /\ child.how = "exited" => result'.status = ExitCode(child.n)]_vars
  /\ (pc = "blocked" /\ pidArg = ChildPid /\ child.state = "zombie")
       ~> (pc = "returned")

C7_Witness ==
  /\ pc = "returned"
  /\ pidArg = ChildPid
  /\ child.state = "reaped" /\ child.how = "killed" /\ child.n = 9
  /\ result.tag = "Ok"
  /\ result.status = Signal(9)

\* C9: on every successful wait for the child, memory_usage is the child's
\* peak resident-set size in bytes, whatever unit ru_maxrss is reported in,
\* and wall_time_usage is 0.
C9_MemoryUsageInBytes ==
  (pc = "returned" /\ result.tag = "Ok" /\ w4.ret = ChildPid) =>
    /\ result.usage.memory_usage = child.usage.peakRss
    /\ result.usage.wall_time_usage = 0

\* ----------------------------------------------------- signal namer: claims

\* C8: strsignal(n) returns for every i32 n, and returns None for every n
\* that is not a defined signal number.
C8_NoneForUndefinedSignals ==
  (sigPc = "returned" /\ sigArg \notin DefinedSignals) => sigResult = None

====
